---- MODULE Spec2Model ----
(***************************************************************************)
(* acmewatch / acmego: the save-event loop, the reformat orchestration and *)
(* the diff replay engine (diff header parsing, bottom-up hunk replay,     *)
(* line-range extraction).                                                 *)
(*                                                                         *)
(* Byte strings are sequences of one-character strings; Go's 0-based       *)
(* indices are kept and shifted by one where a TLA+ sequence is indexed.   *)
(***************************************************************************)
EXTENDS Integers, Sequences, FiniteSets, TLC

\* Largest number of lines of the file on disk and of the formatter output.
MaxLines == 3

\* Largest number of addresses the buffer handle rejects in one reformat.
MaxRejects == 1

\* Largest number of bytes of a text given to findLines on its own.
MaxText == 4

\* Largest line number given to findLines on its own.
MaxLineNo == 4

\* The texts a line of content can have (one byte each).
Alphabet == {"a", "b"}

NL == "\n"

----------------------------------------------------------------------------
(* strconv.Atoi, strings.Index, strings.Split                              *)

DigitChars == <<"0", "1", "2", "3", "4", "5", "6", "7", "8", "9">>

IsDigit(c) == \E d \in 1..10 : DigitChars[d] = c

DigitVal(c) == (CHOOSE d \in 1..10 : DigitChars[d] = c) - 1

RECURSIVE ParseDigits(_, _)
ParseDigits(s, acc) ==
  IF s = <<>> THEN acc
  ELSE ParseDigits(Tail(s), acc * 10 + DigitVal(Head(s)))

\* strconv.Atoi: an optional sign, then one or more decimal digits.
Atoi(s) ==
  LET signed == s # <<>> /\ Head(s) \in {"+", "-"}
      body   == IF signed THEN Tail(s) ELSE s
  IN  IF body = <<>> \/ \E k \in 1..Len(body) : ~IsDigit(body[k])
      THEN [n |-> 0, err |-> TRUE]
      ELSE [n |-> IF signed /\ Head(s) = "-" THEN 0 - ParseDigits(body, 0)
                  ELSE ParseDigits(body, 0),
            err |-> FALSE]

\* strings.Index(text, ","): 0-based index of the first c, or -1.
Index(text, c) ==
  IF \E k \in 1..Len(text) : text[k] = c
  THEN (CHOOSE k \in 1..Len(text) :
          text[k] = c /\ \A m \in 1..(k - 1) : text[m] # c) - 1
  ELSE -1

\* strings.Split(s, "\n"): the pieces between the separators, the piece after
\* the last separator included (empty when s ends with the separator).
RECURSIVE Split(_, _)
Split(s, sep) ==
  LET k == Index(s, sep)
  IN  IF k < 0 THEN <<s>>
      ELSE <<SubSeq(s, 1, k)>> \o Split(SubSeq(s, k + 2, Len(s)), sep)

----------------------------------------------------------------------------
(* parseSpan                                                               *)

\* (start, end) of a span "N" or "N,M"; (0, 0) and a log line when a number
\* does not parse.
parseSpan(text) ==
  LET i == Index(text, ",")
  IN  IF i < 0
      THEN LET r == Atoi(text)
           IN  IF r.err THEN [start |-> 0, end |-> 0, logged |-> TRUE]
               ELSE [start |-> r.n, end |-> r.n, logged |-> FALSE]
      ELSE LET r1 == Atoi(SubSeq(text, 1, i))
               r2 == Atoi(SubSeq(text, i + 2, Len(text)))
           IN  IF r1.err \/ r2.err
               THEN [start |-> 0, end |-> 0, logged |-> TRUE]
               ELSE [start |-> r1.n, end |-> r2.n, logged |-> FALSE]

----------------------------------------------------------------------------
(* findLines                                                               *)

\* The first loop of findLines: skip start-1 newlines (start is already
\* decremented), counting end down with them.
RECURSIVE findLinesSkip(_, _, _, _)
findLinesSkip(text, i, start, end) ==
  IF i < Len(text) /\ start > 0
  THEN IF text[i + 1] = NL
       THEN findLinesSkip(text, i + 1, start - 1, end - 1)
       ELSE findLinesSkip(text, i + 1, start, end)
  ELSE [i |-> i, end |-> end]

\* The second loop stopping in front of the last newline it counts.
RECURSIVE findLinesTakeExclusive(_, _, _)
findLinesTakeExclusive(text, i, end) ==
  IF i < Len(text) /\ end > 0
  THEN IF text[i + 1] = NL
       THEN IF end = 1 THEN i ELSE findLinesTakeExclusive(text, i + 1, end - 1)
       ELSE findLinesTakeExclusive(text, i + 1, end)
  ELSE i

\* The second loop of findLines: advance past end more newlines.
RECURSIVE findLinesTake(_, _, _)
findLinesTake(text, i, end) ==
  IF i < Len(text) /\ end > 0
  THEN IF text[i + 1] = NL
       THEN findLinesTake(text, i + 1, end - 1)
       ELSE findLinesTake(text, i + 1, end)
  ELSE i

\* The window with the second loop starting over at the first byte.
findLinesWindowRestart(text, start, end) ==
  LET s == findLinesSkip(text, 0, start - 1, end)
  IN  [startByte |-> s.i, endByte |-> findLinesTake(text, 0, s.end)]

\* The byte offsets [startByte, endByte) of lines start..end of text.
findLinesWindow(text, start, end) ==
  LET s == findLinesSkip(text, 0, start - 1, end)
  IN  [startByte |-> s.i, endByte |-> findLinesTake(text, s.i, s.end)]

\* findLines returning the window without its last byte.
findLinesNoTerminator(text, start, end) ==
  LET w == findLinesWindow(text, start, end)
  IN  SubSeq(text, w.startByte + 1, w.endByte - 1)

findLines(text, start, end) ==
  LET w == findLinesWindow(text, start, end)
  IN  SubSeq(text, w.startByte + 1, w.endByte)

----------------------------------------------------------------------------
(* File contents                                                           *)

\* A content is a sequence of lines, each a text of Alphabet.
LineSeqs(n) == UNION {[1..k -> Alphabet] : k \in 0..n}

\* The bytes of a content: every line followed by its terminator.
RECURSIVE Bytes(_)
Bytes(ls) ==
  IF ls = <<>> THEN <<>> ELSE <<Head(ls), NL>> \o Bytes(Tail(ls))

\* The contents the file on disk and the formatter output range over.
Contents == {Bytes(ls) : ls \in LineSeqs(MaxLines)}

\* cmd.CombinedOutput(): a command that started has its output copied into
\* the buffer, which is allocated before the first read, so the bytes are
\* not nil even when nothing was written; a command that did not start
\* leaves the buffer unallocated (and returns an error).
CombinedOutput(started, written) ==
  IF started THEN [isNil |-> FALSE, b |-> written]
  ELSE [isNil |-> TRUE, b |-> <<>>]

----------------------------------------------------------------------------
(* The diff producer: exec.Command("9", "diff", name, tmp)                 *)

\* The decimal text of an integer (%d, strconv.Itoa).
RECURSIVE Itoa(_)
Itoa(n) ==
  IF n < 0 THEN <<"-">> \o Itoa(0 - n)
  ELSE IF n < 10 THEN <<DigitChars[n + 1]>>
  ELSE Itoa(n \div 10) \o <<DigitChars[(n % 10) + 1]>>

\* A line range as diff prints it: "N", or "N,M" when it has several lines.
Range(a, b) == IF a = b THEN Itoa(a) ELSE Itoa(a) \o <<",">> \o Itoa(b)

RECURSIVE SortedSeq(_)
SortedSeq(S) ==
  IF S = {} THEN <<>>
  ELSE LET m == CHOOSE x \in S : \A y \in S : x <= y
       IN  <<m>> \o SortedSeq(S \ {m})

\* The matchings of old lines with equal new lines, in order. Each is a
\* sequence of anchors <<old line, new line>>.
Matchings(old, new) ==
  {[k \in 1..Cardinality(ko) |-> <<SortedSeq(ko)[k], SortedSeq(kn)[k]>>] :
     <<ko, kn>> \in
       {p \in (SUBSET (1..Len(old))) \X (SUBSET (1..Len(new))) :
          /\ Cardinality(p[1]) = Cardinality(p[2])
          /\ \A k \in 1..Cardinality(p[1]) :
               old[SortedSeq(p[1])[k]] = new[SortedSeq(p[2])[k]]}}

\* The matchings a diff keeps: the longest ones (a shortest edit script).
Longest(old, new) ==
  LET ms == Matchings(old, new)
  IN  {m \in ms : \A m2 \in ms : Len(m2) <= Len(m)}

\* The detail lines of a hunk: mark, blank, line text.
Detail(mark, ls, a, b) == [k \in 1..(b - a + 1) |-> <<mark, " ", ls[a + k - 1]>>]

\* The hunk between two consecutive anchors (o1,n1) and (o2,n2), as lines of
\* diff output: nothing, an add, a delete or a change.
HunkLines(old, new, o1, n1, o2, n2) ==
  LET oldGap == o2 - o1 - 1
      newGap == n2 - n1 - 1
  IN  IF oldGap = 0 /\ newGap = 0 THEN <<>>
      ELSE IF oldGap = 0
      THEN <<Itoa(o1) \o <<"a">> \o Range(n1 + 1, n2 - 1)>>
           \o Detail(">", new, n1 + 1, n2 - 1)
      ELSE IF newGap = 0
      THEN <<Range(o1 + 1, o2 - 1) \o <<"d">> \o Itoa(n1)>>
           \o Detail("<", old, o1 + 1, o2 - 1)
      ELSE <<Range(o1 + 1, o2 - 1) \o <<"c">> \o Range(n1 + 1, n2 - 1)>>
           \o Detail("<", old, o1 + 1, o2 - 1)
           \o << <<"-", "-", "-">> >>
           \o Detail(">", new, n1 + 1, n2 - 1)

RECURSIVE ScriptFrom(_, _, _, _)
ScriptFrom(old, new, anchors, k) ==
  IF k >= Len(anchors) THEN <<>>
  ELSE HunkLines(old, new, anchors[k][1], anchors[k][2],
                 anchors[k + 1][1], anchors[k + 1][2])
       \o ScriptFrom(old, new, anchors, k + 1)

\* The lines of the diff of old and new that keeps the lines of matching m,
\* hunks in ascending order of old line.
Script(old, new, m) ==
  ScriptFrom(old, new,
             << <<0, 0>> >> \o m \o << <<Len(old) + 1, Len(new) + 1>> >>, 1)

\* Lines that are no hunk header: one without an operator character, one
\* whose new span is no number.
BadLines == { <<"2", "x", "2">>, <<"2", "c", "x">> }

IsDetail(line) == line # <<>> /\ line[1] \in {"<", "-", ">"}

\* Where a stray line can stand in a script: before a header, or at the end.
HeaderSlots(lines) ==
  {k \in 1..(Len(lines) + 1) : k = Len(lines) + 1 \/ ~IsDetail(lines[k])}

InsertAt(lines, k, x) ==
  SubSeq(lines, 1, k - 1) \o <<x>> \o SubSeq(lines, k, Len(lines))

RECURSIVE JoinLines(_)
JoinLines(lines) ==
  IF lines = <<>> THEN <<>> ELSE Head(lines) \o <<NL>> \o JoinLines(Tail(lines))

\* What a diff command that could not compare the files prints: nothing, or
\* a message.
DiffFailures == { <<>>, <<"d", "i", "f", "f", ":", " ", "x", NL>> }

\* What the diff command can print for two contents given as line sequences:
\* a script of theirs, possibly with one stray line in it, or, when it
\* fails, no script. (The error of the command is not looked at.)
DiffOutputs(old, new) ==
  LET scripts == {Script(old, new, m) : m \in Longest(old, new)}
  IN  {[text |-> JoinLines(s), garbled |-> FALSE, failed |-> FALSE] :
         s \in scripts}
      \cup {[text |-> JoinLines(InsertAt(s, k, x)), garbled |-> TRUE,
              failed |-> FALSE] :
              <<s, k, x>> \in
                {t \in scripts \X (1..(3 * MaxLines + 2)) \X BadLines :
                   t[2] \in HeaderSlots(t[1])}}
      \cup {[text |-> t, garbled |-> FALSE, failed |-> TRUE] :
              t \in DiffFailures}

\* The lines of a content given as bytes (the inverse of Bytes).
LinesOf(b) ==
  LET parts == Split(b, NL)
  IN  [k \in 1..(Len(parts) - 1) |-> Head(parts[k])]

----------------------------------------------------------------------------
(* The buffer handle and the replay loop of reformat                       *)

\* One write to a file of the window: file is "ctl", "addr" or "data", ok
\* tells whether the handle accepted it, line is the index in diffLines of
\* the header that caused it (-1 for the resets), closed tells whether the
\* handle had been closed before.
Cmd(file, data, ok, line, closed) ==
  [file |-> file, data |-> data, ok |-> ok, line |-> line, closed |-> closed]

Report(stream, msg) == [stream |-> stream, msg |-> msg]

\* w.Write(file, data): the error is not looked at.
wWrite(c, file, data, line) ==
  [c EXCEPT !.cmds = Append(@, Cmd(file, data, TRUE, line, c.closes > 0))]

\* w.Addr(format, args...): writes the formatted address to addr; on a
\* rejected address the caller logs the error.
wAddr(c, addr, ok, line) ==
  LET c1 == [c EXCEPT !.cmds = Append(@, Cmd("addr", addr, ok, line, c.closes > 0))]
  IN  IF ok THEN c1
      ELSE [c1 EXCEPT !.log = Append(@, Report("stderr", "addr"))]

\* w.Write("ctl", "mark"); w.Write("ctl", "nomark")
Resets == << <<"m", "a", "r", "k">>, <<"n", "o", "m", "a", "r", "k">> >>

RECURSIVE issueResets(_, _)
issueResets(c, rs) ==
  IF rs = <<>> THEN c
  ELSE issueResets(wWrite(c, "ctl", Head(rs), -1), Tail(rs))

\* "%d+#0" and "%d,%d"
AddrAfter(oldStart) == Itoa(oldStart) \o <<"+", "#", "0">>
AddrRange(oldStart, oldEnd) == Itoa(oldStart) \o <<",">> \o Itoa(oldEnd)

\* applyHunk writing the data whether or not the selection was accepted.
applyHunkWriteAnyway(c, op, o, n, new, addrOk, line) ==
  LET addr == IF op = "a" THEN AddrAfter(o.start) ELSE AddrRange(o.start, o.end)
      data == IF op = "d" THEN <<>> ELSE findLines(new, n.start, n.end)
  IN  wWrite(wAddr(c, addr, addrOk, line), "data", data, line)

\* applyHunk resetting the buffer state before every hunk.
applyHunkResetEach(c, op, o, n, new, addrOk, line) ==
  LET addr == IF op = "a" THEN AddrAfter(o.start) ELSE AddrRange(o.start, o.end)
      data == IF op = "d" THEN <<>> ELSE findLines(new, n.start, n.end)
      c1   == wAddr(issueResets(c, Resets), addr, addrOk, line)
  IN  IF addrOk THEN wWrite(c1, "data", data, line) ELSE c1

\* applyHunk writing the lines of the new span for a delete too.
applyHunkDeleteWrites(c, op, o, n, new, addrOk, line) ==
  LET addr == IF op = "a" THEN AddrAfter(o.start) ELSE AddrRange(o.start, o.end)
      data == findLines(new, n.start, n.end)
      c1   == wAddr(c, addr, addrOk, line)
  IN  IF addrOk THEN wWrite(c1, "data", data, line) ELSE c1

\* The switch on the operator character: select, then write; a rejected
\* selection leaves the switch without writing.
applyHunk(c, op, o, n, new, addrOk, line) ==
  LET addr == IF op = "a" THEN AddrAfter(o.start) ELSE AddrRange(o.start, o.end)
      data == IF op = "d" THEN <<>> ELSE findLines(new, n.start, n.end)
      c1   == wAddr(c, addr, addrOk, line)
  IN  IF addrOk THEN wWrite(c1, "data", data, line) ELSE c1

\* The scan for the operator character: the first j with line[j] one of
\* a, c, d, or len(line).
OpIndex(line) ==
  IF \E k \in 1..Len(line) : line[k] \in {"a", "c", "d"}
  THEN (CHOOSE k \in 1..Len(line) :
          /\ line[k] \in {"a", "c", "d"}
          /\ \A m \in 1..(k - 1) : line[m] \notin {"a", "c", "d"}) - 1
  ELSE Len(line)

\* LineAt reading the script from its first line on.
LineAtForward(diffLines, i) == diffLines[Len(diffLines) - i]

\* diffLines[i]
LineAt(diffLines, i) == diffLines[i + 1]

\* SkipHunk asking for both spans to be zero.
SkipHunkBoth(oldStart, newStart) == oldStart = 0 /\ newStart = 0

\* if oldStart == 0 || newStart == 0 { continue }
SkipHunk(oldStart, newStart) == oldStart = 0 \/ newStart = 0

logSpan(c, span) ==
  IF span.logged THEN [c EXCEPT !.log = Append(@, Report("stderr", "span"))]
  ELSE c

\* for i := len(diffLines) - 1; i >= 0; i-- { ... }: from iteration i on.
\* rejects holds the indices whose address the handle rejects.
RECURSIVE replay(_, _, _, _, _)
replay(c, diffLines, i, new, rejects) ==
  IF i < 0 THEN c
  ELSE
    LET line == LineAt(diffLines, i)
    IN  IF line = <<>> THEN replay(c, diffLines, i - 1, new, rejects)
        ELSE IF line[1] \in {"<", "-", ">"}
        THEN replay(c, diffLines, i - 1, new, rejects)
        ELSE
          LET j == OpIndex(line)
          IN  IF j >= Len(line)
              THEN \* break: leaves the for loop
                   [c EXCEPT !.log = Append(@, Report("stderr", "line"))]
              ELSE
                LET o  == parseSpan(SubSeq(line, 1, j))
                    n  == parseSpan(SubSeq(line, j + 2, Len(line)))
                    c1 == logSpan(logSpan(c, o), n)
                IN  IF SkipHunk(o.start, n.start)
                    THEN replay(c1, diffLines, i - 1, new, rejects)
                    ELSE replay(applyHunk(c1, line[j + 1], o, n, new,
                                          i \notin rejects, i),
                                diffLines, i - 1, new, rejects)

----------------------------------------------------------------------------
(* reformat and the handlers of the two mains                              *)

Nil == [isNil |-> TRUE, b |-> <<>>]

\* What one event leaves behind: the path taken, the calls made, the
\* commands issued on the handle, the reports, the temporary file.
NoCall ==
  [path |-> "none", opens |-> 0, closes |-> 0, fmtCalls |-> 0,
   diffCalls |-> 0, cmds |-> <<>>, log |-> <<>>, tmp |-> "none",
   old |-> <<>>, new |-> Nil, diff |-> <<>>, garbled |-> FALSE,
   diffFailed |-> FALSE,
   rejects |-> {}, fmtErr |-> FALSE, err |-> FALSE,
   diskBefore |-> <<>>, disk |-> <<>>, tmpData |-> <<>>]

\* The state at the start of the handling of an event: nothing done yet, the
\* file named by the event holds the bytes the editor has put.
StartCall(env) == [NoCall EXCEPT !.diskBefore = env.disk, !.disk = env.disk]

\* f.Write writing the new content into the file named by the event.
fWriteToName(c) == [c EXCEPT !.disk = c.new.b]

\* f.Write(new) on the temporary file.
fWrite(c) == [c EXCEPT !.tmpData = c.new.b]

\* CloseFiles never run.
CloseFilesMissing(c) == c

\* defer w.CloseFiles()
CloseFiles(c) == [c EXCEPT !.closes = @ + 1]

\* out, err := cmd.CombinedOutput() in readEvent: one run of the formatter;
\* its output, and whether it failed.
runFormatter(c, env) ==
  [c EXCEPT !.fmtCalls = @ + 1,
            !.new = CombinedOutput(env.started, env.out),
            !.fmtErr = env.fmtErr]

\* new, err := fn(name) in acmego: one run of the formatter; the fmt
\* functions return nil bytes with the error.
fmtFn(c, env) ==
  [c EXCEPT !.fmtCalls = @ + 1,
            !.new = IF env.fmtErr THEN Nil
                    ELSE CombinedOutput(env.started, env.out),
            !.fmtErr = env.fmtErr]

\* The formatter's error not looked at.
FormatterFailedIgnored(c) == FALSE

\* if err != nil after the formatter ran
FormatterFailed(c) == c.fmtErr

\* NoChange without the comparison with the old content.
NoChangeNilOnly(old, new) == new.isNil

\* new == nil || bytes.Equal(old, new)
NoChange(old, new) == new.isNil \/ old = new.b

\* The part of reformat from the temporary file on: write new to it, run
\* diff on the file and it, reset the buffer state, replay the script.
reformatDiff(c, env, d, rejects) ==
  IF ~env.tempOk
  THEN [c EXCEPT !.path = "temp-failed",
                 !.log = Append(@, Report("stderr", "temp"))]
  ELSE IF ~env.writeOk
  THEN [c EXCEPT !.path = "write-failed", !.tmp = "open",
                 !.log = Append(@, Report("stderr", "write"))]
  ELSE
    LET c0 == fWrite(c)
        c1 == [c0 EXCEPT !.diffCalls = @ + 1, !.diff = d.text,
                        !.garbled = d.garbled, !.diffFailed = d.failed,
                        !.rejects = rejects]
        c2 == issueResets(c1, Resets)
        diffLines == Split(d.text, NL)
        c3 == replay(c2, diffLines, Len(diffLines) - 1, c.new.b, rejects)
    IN  [c3 EXCEPT !.path = "replayed", !.tmp = "removed"]

\* reformat of acmewatch (new is the formatter output) from ReadFile on.
reformatRead(c, env, d, rejects) ==
  IF ~env.readOk THEN [c EXCEPT !.path = "read-failed"]
  ELSE
    LET c1 == [c EXCEPT !.old = env.disk]
    IN  IF NoChange(c1.old, c1.new) THEN [c1 EXCEPT !.path = "no-change"]
        ELSE reformatDiff(c1, env, d, rejects)

\* reformat of acmego (the formatter runs inside) from ReadFile on.
reformatReadFn(c, env, d, rejects) ==
  IF ~env.readOk THEN [c EXCEPT !.path = "read-failed"]
  ELSE
    LET c1 == fmtFn([c EXCEPT !.old = env.disk], env)
    IN  IF FormatterFailed(c1)
        THEN [c1 EXCEPT !.path = "fmt-failed",
                        !.log = Append(@, Report("stderr", "fmt"))]
        ELSE IF NoChange(c1.old, c1.new) THEN [c1 EXCEPT !.path = "no-change"]
        ELSE reformatDiff(c1, env, d, rejects)

\* reformat: open the window, run the body, close the window on return.
reformat(c, variant, env, d, rejects) ==
  IF ~env.openOk
  THEN [c EXCEPT !.path = "open-failed",
                 !.log = Append(@, Report("stderr", "open"))]
  ELSE
    LET c1 == [c EXCEPT !.opens = @ + 1]
    IN  CloseFiles(IF variant = "acmego"
                   THEN reformatReadFn(c1, env, d, rejects)
                   ELSE reformatRead(c1, env, d, rejects))

\* readEvent of acmewatch: read the configuration when it is newer than the
\* one last read (and say so on stdout), find the formatter of the name (a
\* malformed pattern met on the way is an error), open the file for the
\* formatter's stdin, run the formatter, hand its output to reformat.
readEvent(c, name, env, d, rejects) ==
  IF ~env.cfgOk THEN [c EXCEPT !.path = "config-failed", !.err = TRUE]
  ELSE
    LET c0 == IF env.cfgRead
              THEN [c EXCEPT !.log = Append(@, Report("stdout", "read"))]
              ELSE c
    IN
  IF env.before = "match" THEN [c0 EXCEPT !.path = "match-failed", !.err = TRUE]
  ELSE IF name # "x.go" THEN [c0 EXCEPT !.path = "no-formatter"]
  ELSE IF env.before = "stdin"
  THEN [c0 EXCEPT !.path = "stdin-failed", !.err = TRUE]
  ELSE
    LET c1 == runFormatter(c0, env)
    IN  IF FormatterFailed(c1)
        THEN [c1 EXCEPT !.path = "fmt-failed", !.err = TRUE]
        ELSE reformat(c1, "acmewatch", env, d, rejects)

\* The body of the event loop of acmego for a put event with a name.
dispatch(c, name, env, d, rejects) ==
  IF name # "x.go" THEN [c EXCEPT !.path = "no-formatter"]
  ELSE reformat(c, "acmego", env, d, rejects)

\* AfterEvent ending the process when the event met a failure.
AfterEventFatal(c) ==
  [pc |-> IF c.err \/ c.path \in {"open-failed", "temp-failed", "write-failed"}
             \/ c.rejects # {}
          THEN "exited" ELSE "read",
   call |-> c]

\* if err := readEvent(...); err != nil { fmt.Printf(...) }: the error is
\* printed and the loop goes on to the next l.Read().
AfterEvent(c) ==
  [pc |-> "read",
   call |-> IF c.err
            THEN [c EXCEPT !.log = Append(@, Report("stdout", "event"))]
            ELSE c]

handle(variant, name, env, d, rejects) ==
  IF variant = "acmego" THEN dispatch(StartCall(env), name, env, d, rejects)
  ELSE readEvent(StartCall(env), name, env, d, rejects)

----------------------------------------------------------------------------
(* The event loop                                                          *)

VARIABLES
  variant,   \* which main runs: "acmewatch" or "acmego"
  pc,        \* "start": at the start of main; "read": at l.Read();
             \* "event": an event to handle; "exited"
  event,     \* the last event read
  call,      \* what handling the last event did (NoCall before)
  ext        \* a call of findLines on its own: arguments, window, result

vars == <<variant, pc, event, call, ext>>

Names == {"", "x.go", "x.txt"}
Ops == {"put", "new"}

\* What l.Read() can return: an error, or an event.
ReadResults ==
  {[ok |-> FALSE, name |-> "", op |-> ""]}
  \cup {[ok |-> TRUE, name |-> n, op |-> o] : <<n, o>> \in Names \X Ops}

\* What readEvent can meet between the configuration and the formatter:
\* nothing ("ok"), filepath.Match failing on a malformed pattern ("match"),
\* os.Open(name) for the formatter's stdin failing ("stdin").
Befores == {"ok", "match", "stdin"}

\* What the handling of one event meets. A configuration that was read anew
\* was read without failure; a formatter that did not start has failed and
\* has written nothing; the outcomes of the calls that are not reached after
\* a failed match or open are left at one value.
Envs ==
  {e \in [cfgOk : BOOLEAN, cfgRead : BOOLEAN, before : Befores,
          started : BOOLEAN, fmtErr : BOOLEAN,
          out : Contents, openOk : BOOLEAN, readOk : BOOLEAN,
          disk : Contents, tempOk : BOOLEAN, writeOk : BOOLEAN] :
     /\ e.cfgRead => e.cfgOk
     /\ e.started \/ (e.fmtErr /\ e.out = <<>>)
     /\ e.before # "ok" =>
          (e.cfgOk /\ e.started /\ ~e.fmtErr /\ e.out = <<>> /\ e.openOk
             /\ e.readOk /\ e.tempOk /\ e.writeOk)}

NoDiff == [text |-> <<>>, garbled |-> FALSE, failed |-> FALSE]

\* What the header scan makes of every line of a script, by index from 0:
\* cand: neither empty nor a detail line; hasOp: an operator character was
\* found; op: that character; old, new: the spans before and after it.
Headers(lines) ==
  [i \in 0..(Len(lines) - 1) |->
     LET line == lines[i + 1]
         j    == OpIndex(line)
     IN  [cand  |-> line # <<>> /\ ~IsDetail(line),
          hasOp |-> j < Len(line),
          op    |-> IF j < Len(line) THEN line[j + 1] ELSE "",
          old   |-> parseSpan(SubSeq(line, 1, j)),
          new   |-> parseSpan(SubSeq(line, j + 2, Len(line)))]]

\* A header with an operator whose two spans start at a line other than 0.
Applicable(h) == h.cand /\ h.hasOp /\ h.old.start # 0 /\ h.new.start # 0

\* The indices of the lines of a diff output for which reformat can call
\* w.Addr.
AddrIdx(text) ==
  LET H == Headers(Split(text, NL))
  IN  {i \in DOMAIN H : Applicable(H[i])}

\* The sets of headers whose address the handle can reject in one reformat.
RejectSets(text) ==
  {r \in SUBSET AddrIdx(text) : Cardinality(r) <= MaxRejects}

\* No call of findLines on its own.
NoExt ==
  [text |-> <<>>, start |-> 0, end |-> 0, done |-> FALSE,
   startByte |-> 0, endByte |-> 0, out |-> <<>>]

\* No event read yet.
NoEvent == [ok |-> TRUE, name |-> "", op |-> ""]

Init ==
  /\ variant \in {"acmewatch", "acmego"}
  /\ pc = "start"
  /\ event = NoEvent
  /\ call = NoCall
  /\ ext = NoExt

\* The start of main: acme.Log() and, in acmewatch, xdg.ConfigFile(); a
\* failure of either ends the process before the loop.
Start ==
  /\ pc = "start"
  /\ \E logOk, configOk \in BOOLEAN :
       pc' = IF ~logOk THEN "exited"
             ELSE IF variant = "acmewatch" /\ ~configOk THEN "exited"
             ELSE "read"
  /\ UNCHANGED <<variant, event, call, ext>>

\* event, err := l.Read(): a failure ends the process; an event without a
\* name or that is no put is passed over.
ReadEvent ==
  /\ pc = "read"
  /\ \E e \in ReadResults :
       /\ event' = e
       /\ pc' = IF ~e.ok THEN "exited"
                ELSE IF e.name = "" \/ e.op # "put" THEN "read"
                ELSE "event"
  /\ call' = NoCall
  /\ UNCHANGED <<variant, ext>>

\* The handling of one put event, to the return into the loop.
HandleEvent ==
  /\ pc = "event"
  /\ \E env \in Envs :
       LET probe == handle(variant, event.name, env, NoDiff, {})
       IN  IF probe.path = "replayed"
           THEN \E d \in DiffOutputs(LinesOf(probe.old), LinesOf(probe.new.b)) :
                  \E rejects \in RejectSets(d.text) :
                    LET r == AfterEvent(handle(variant, event.name, env, d, rejects))
                    IN  pc' = r.pc /\ call' = r.call
           ELSE LET r == AfterEvent(probe)
                IN  pc' = r.pc /\ call' = r.call
  /\ UNCHANGED <<variant, event, ext>>

Next == Start \/ ReadEvent \/ HandleEvent

Spec == Init /\ [][Next]_vars

----------------------------------------------------------------------------
(* findLines on its own: any bytes, any pair of line numbers.              *)

\* The byte contents given to findLines: lines of any length, terminated
\* or not.
Texts == UNION { [1..n -> {"a", NL}] : n \in 0..MaxText }

\* The line numbers given to findLines.
LineNos == -1..MaxLineNo

InitFind ==
  /\ variant = "acmewatch"
  /\ pc = "exited"
  /\ event = NoEvent
  /\ call = NoCall
  /\ \E text \in Texts, start, end \in LineNos :
       ext = [NoExt EXCEPT !.text = text, !.start = start, !.end = end]

\* One call of findLines(text, start, end), to its return.
CallFindLines ==
  /\ ~ext.done
  /\ LET w == findLinesWindow(ext.text, ext.start, ext.end)
     IN  ext' = [ext EXCEPT !.done = TRUE,
                            !.startByte = w.startByte,
                            !.endByte = w.endByte,
                            !.out = findLines(ext.text, ext.start, ext.end)]
  /\ UNCHANGED <<variant, pc, event, call>>

NextFind == CallFindLines

SpecFind == InitFind /\ [][NextFind]_vars

----------------------------------------------------------------------------
(* Properties                                                              *)

Cmds == call.cmds
CmdIdx == 1..Len(call.cmds)

\* The headers of the script of the last reformat.
Hdrs == Headers(Split(call.diff, NL))

\* A header with an operator and a span that starts at 0 or does not parse.
ZeroSpan(h) == h.cand /\ h.hasOp /\ (h.old.start = 0 \/ h.new.start = 0)

\* No line of H after index i lacks an operator.
NoStrayAfter(H, i) ==
  \A k \in DOMAIN H : (k > i /\ H[k].cand) => H[k].hasOp

Attempted(i) == \E k \in CmdIdx : Cmds[k].file = "addr" /\ Cmds[k].line = i

\* The line number an address starts with.
AddrStart(addr) ==
  LET stop == IF \E k \in 1..Len(addr) : ~IsDigit(addr[k])
              THEN CHOOSE k \in 1..Len(addr) :
                     ~IsDigit(addr[k]) /\ \A m \in 1..(k - 1) : IsDigit(addr[m])
              ELSE Len(addr) + 1
  IN  Atoi(SubSeq(addr, 1, stop - 1)).n

\* The old-range starts of the applicable headers ascend in script order.
Ascending(H) ==
  \A i, k \in DOMAIN H :
    (i < k /\ Applicable(H[i]) /\ Applicable(H[k])) =>
      H[i].old.start <= H[k].old.start

(* Reference splicing: the buffer as bytes, an address as a byte range.    *)

\* The offset just after the n-th line terminator of buf, from offset i on.
RECURSIVE LineEnd(_, _, _)
LineEnd(buf, n, i) ==
  IF n <= 0 THEN i
  ELSE IF i >= Len(buf) THEN Len(buf)
  ELSE LineEnd(buf, IF buf[i + 1] = NL THEN n - 1 ELSE n, i + 1)

\* "N+#0": the empty range after line N; "N,M": lines N to M, terminators
\* included.
RefSelect(buf, addr) ==
  LET plus  == Index(addr, "+")
      comma == Index(addr, ",")
  IN  IF plus >= 0
      THEN LET q == LineEnd(buf, Atoi(SubSeq(addr, 1, plus)).n, 0)
           IN  [q0 |-> q, q1 |-> q]
      ELSE [q0 |-> LineEnd(buf, Atoi(SubSeq(addr, 1, comma)).n - 1, 0),
            q1 |-> LineEnd(buf, Atoi(SubSeq(addr, comma + 2, Len(addr))).n, 0)]

RECURSIVE RefApply(_, _, _)
RefApply(buf, sel, cmds) ==
  IF cmds = <<>> THEN buf
  ELSE LET c == Head(cmds)
       IN  IF c.file = "addr" /\ c.ok
           THEN RefApply(buf, RefSelect(buf, c.data), Tail(cmds))
           ELSE IF c.file = "data"
           THEN RefApply(SubSeq(buf, 1, sel.q0) \o c.data
                           \o SubSeq(buf, sel.q1 + 1, Len(buf)),
                         [q0 |-> sel.q0, q1 |-> sel.q0 + Len(c.data)],
                         Tail(cmds))
           ELSE RefApply(buf, sel, Tail(cmds))

\* C1: in a reformat with two or more selections (after the two resets)
\* whose script has its headers in ascending old-range order, the selections
\* are issued in the reverse of script order: a later selection belongs to an earlier line of the script and starts at
\* a line no greater than every selection before it.
C1_ReverseOrder ==
  (Len(Cmds) > 3 /\ Ascending(Hdrs)) =>
    \A k, m \in CmdIdx :
      (k < m /\ Cmds[k].file = "addr" /\ Cmds[m].file = "addr") =>
        /\ Cmds[k].line > Cmds[m].line
        /\ AddrStart(Cmds[m].data) <= AddrStart(Cmds[k].data)

\* Two hunks were applied.
C1_Witness ==
  /\ call.path = "replayed"
  /\ \E k, m \in CmdIdx :
       /\ k < m
       /\ Cmds[k].file = "data" /\ Cmds[m].file = "data"
       /\ Cmds[k].line # Cmds[m].line

\* C2: round trip: for a script of diff's and no rejected address, the
\* commands issued, spliced into the old content, give the new content.
C2_RoundTrip ==
  (call.path = "replayed" /\ ~call.garbled /\ ~call.diffFailed
     /\ call.rejects = {}) =>
    RefApply(call.old, [q0 |-> 0, q1 |-> 0], Cmds) = call.new.b

\* C3: with one unparsable line among the headers, every applicable header
\* still has its selection issued.
C3_Resilience ==
  (call.path = "replayed" /\ call.garbled) =>
    LET H == Hdrs
    IN  \A i \in DOMAIN H : Applicable(H[i]) => Attempted(i)

\* C4: when the new content is nil, empty or equal to the old content, no
\* command is issued on the buffer and diff is not run.
C4_NoOpSkip ==
  (call.opens = 1 /\ call.path \notin {"read-failed", "fmt-failed"}
     /\ (call.new.isNil \/ call.new.b = <<>> \/ call.new.b = call.old)) =>
    (Cmds = <<>> /\ call.diffCalls = 0)

\* C5: a data write follows an accepted selection of the same hunk and
\* nothing else; a rejected selection is followed by no write, and every
\* applicable header the loop has still before it gets its selection.
C5_FailureIsolation ==
  /\ \A k \in CmdIdx :
       Cmds[k].file = "data" =>
         /\ k > 1
         /\ Cmds[k - 1].file = "addr"
         /\ Cmds[k - 1].ok
         /\ Cmds[k - 1].line = Cmds[k].line
  /\ call.rejects # {} =>
       LET H == Hdrs
       IN  \A k \in CmdIdx :
             (Cmds[k].file = "addr" /\ ~Cmds[k].ok) =>
               /\ k < Len(Cmds) => Cmds[k + 1].file = "addr"
               /\ \A i \in DOMAIN H :
                    (i < Cmds[k].line /\ Applicable(H[i]) /\ NoStrayAfter(H, i)) =>
                      \E m \in CmdIdx :
                        m > k /\ Cmds[m].file = "addr" /\ Cmds[m].line = i

\* A selection was rejected and the hunk before it in the script was
\* applied afterwards.
C5_Witness ==
  \E k \in CmdIdx :
    /\ Cmds[k].file = "addr" /\ ~Cmds[k].ok
    /\ k + 2 <= Len(Cmds)
    /\ Cmds[k + 1].file = "addr" /\ Cmds[k + 1].ok
    /\ Cmds[k + 2].file = "data"

\* C6: when the formatter fails, no command is issued on the buffer and the
\* formatter was run once.
C6_FormatterFailure ==
  call.fmtErr => (Cmds = <<>> /\ call.fmtCalls = 1 /\ call.diffCalls = 0)

\* The formatter of acmewatch failed after printing something.
C6_Witness ==
  /\ variant = "acmewatch"
  /\ call.fmtErr
  /\ ~call.new.isNil
  /\ call.path = "fmt-failed"
  /\ call.fmtCalls = 1

\* C7: a reformat that opened the handle has closed it once when it returns,
\* and no command was issued on a closed handle.
C7_Release ==
  /\ call.opens <= 1
  /\ call.closes = call.opens
  /\ \A k \in CmdIdx : ~Cmds[k].closed

\* The handle was closed after a replay with a rejected address.
C7_Witness ==
  /\ call.path = "replayed"
  /\ call.opens = 1 /\ call.closes = 1
  /\ \E k \in CmdIdx : Cmds[k].file = "addr" /\ ~Cmds[k].ok

FailurePaths ==
  {"config-failed", "match-failed", "stdin-failed", "open-failed",
   "read-failed", "fmt-failed", "temp-failed", "write-failed"}

\* C8: once in the loop the process ends only at a failed l.Read(); after
\* an event whose handling failed the loop is back at l.Read().
C8_LoopSurvives ==
  /\ (pc = "exited" /\ event # NoEvent) => (~event.ok /\ call = NoCall)
  /\ (pc = "exited" /\ event = NoEvent) => call = NoCall
  /\ (call.path \in FailurePaths \/ call.diffFailed \/ call.log # <<>>) =>
       pc = "read"

\* The loop is at l.Read() after a replay with a rejected address.
C8_Witness ==
  /\ pc = "read"
  /\ call.path = "replayed"
  /\ \E k \in 1..Len(call.log) : call.log[k].msg = "addr"

\* C9: a header with a span that starts at 0 or does not parse causes no
\* command, and the applicable headers before it in the script still get
\* their selection.
C9_ZeroSpan ==
  call.path = "replayed" =>
    LET H == Hdrs
    IN  \A i \in DOMAIN H :
          ZeroSpan(H[i]) =>
            /\ \A k \in CmdIdx : Cmds[k].line # i
            /\ \A i2 \in DOMAIN H :
                 (i2 < i /\ Applicable(H[i2]) /\ NoStrayAfter(H, i2)) =>
                   Attempted(i2)

\* A script was replayed that has a header with old span 0, then an
\* applicable header that got its selection, then a header whose new span is
\* no number; the two caused no command.
C9_Witness ==
  /\ call.path = "replayed"
  /\ call.garbled
  /\ LET H == Hdrs
     IN  \E z, i2, g \in DOMAIN H :
           /\ z < i2 /\ i2 < g
           /\ ZeroSpan(H[z]) /\ H[z].old.start = 0 /\ ~H[z].old.logged
           /\ Applicable(H[i2]) /\ Attempted(i2)
           /\ ZeroSpan(H[g]) /\ H[g].new.logged
           /\ \A k \in CmdIdx : Cmds[k].line \notin {z, g}

\* C10: a reformat that reaches the replay issues ctl mark, then ctl nomark,
\* before anything else, and no other ctl write; no other reformat issues a
\* command.
C10_ResetsOnce ==
  /\ call.path = "replayed" =>
       /\ Len(Cmds) >= 2
       /\ Cmds[1].file = "ctl" /\ Cmds[1].data = <<"m", "a", "r", "k">>
       /\ Cmds[2].file = "ctl" /\ Cmds[2].data = <<"n", "o", "m", "a", "r", "k">>
       /\ \A k \in CmdIdx : k > 2 => Cmds[k].file # "ctl"
  /\ call.path # "replayed" => Cmds = <<>>

\* Two hunks were applied after the two resets.
C10_Witness ==
  /\ call.path = "replayed"
  /\ Len(Cmds) >= 6
  /\ Cmds[3].file = "addr" /\ Cmds[5].file = "addr"

\* The lines s..e of a content given as bytes, each with its terminator.
RefLines(b, s, e) == Bytes(SubSeq(LinesOf(b), s, e))

\* The positions in Cmds of the commands caused by the line at index i.
CmdsOf(i) == {k \in CmdIdx : Cmds[k].line = i}

\* C11: every applicable header the loop reaches whose selection is accepted
\* causes one address write followed by one data write and nothing else. An
\* add selects the empty range after line oldStart of the old content and
\* writes the lines of the new range; a change selects the lines of the old
\* range and writes the lines of the new range; a delete selects the lines
\* of the old range and writes nothing.
C11_PerKind ==
  (call.path = "replayed") =>
    LET H == Hdrs
    IN  \A i \in DOMAIN H :
          (Applicable(H[i]) /\ NoStrayAfter(H, i) /\ i \notin call.rejects) =>
            \E k \in CmdIdx :
              /\ CmdsOf(i) = {k, k + 1}
              /\ Cmds[k].file = "addr" /\ Cmds[k].ok
              /\ Cmds[k + 1].file = "data"
              /\ RefSelect(call.old, Cmds[k].data) =
                   IF H[i].op = "a"
                   THEN [q0 |-> LineEnd(call.old, H[i].old.start, 0),
                         q1 |-> LineEnd(call.old, H[i].old.start, 0)]
                   ELSE [q0 |-> LineEnd(call.old, H[i].old.start - 1, 0),
                         q1 |-> LineEnd(call.old, H[i].old.end, 0)]
              /\ Cmds[k + 1].data =
                   IF H[i].op = "d" THEN <<>>
                   ELSE RefLines(call.new.b, H[i].new.start, H[i].new.end)

\* A delete and an add of the same script were applied.
C11_Witness ==
  /\ call.path = "replayed"
  /\ LET H == Hdrs
     IN  \E i, k \in DOMAIN H :
           /\ Applicable(H[i]) /\ H[i].op = "d" /\ Cardinality(CmdsOf(i)) = 2
           /\ Applicable(H[k]) /\ H[k].op = "a" /\ Cardinality(CmdsOf(k)) = 2

\* C12: the file named by the event holds after the handling of the event
\* the bytes it held before.
C12_FileUntouched == call.disk = call.diskBefore

\* A reformat wrote a new content other than the file's into the temporary
\* file and replayed the script.
C12_Witness ==
  /\ call.path = "replayed"
  /\ call.tmpData = call.new.b
  /\ call.tmpData # call.diskBefore
  /\ call.disk = call.diskBefore
  /\ \E k \in CmdIdx : Cmds[k].file = "data"

\* C13: every delete header the loop reaches whose old span starts at a line
\* >= 1 causes the selection of its old range and an empty write, whatever
\* its new span.
C13_DeleteAnyNewSpan ==
  (call.path = "replayed" /\ call.rejects = {}) =>
    LET H == Hdrs
    IN  \A i \in DOMAIN H :
          (H[i].cand /\ H[i].hasOp /\ H[i].op = "d" /\ H[i].old.start >= 1
             /\ NoStrayAfter(H, i)) =>
            \E k \in CmdIdx :
              /\ CmdsOf(i) = {k, k + 1}
              /\ Cmds[k].file = "addr"
              /\ Cmds[k].data = AddrRange(H[i].old.start, H[i].old.end)
              /\ Cmds[k + 1].file = "data" /\ Cmds[k + 1].data = <<>>

\* The number of line terminators of a text.
NumNL(text) == Cardinality({q \in 1..Len(text) : text[q] = NL})

\* The number of lines of a text, an unterminated last line included.
NumLines(text) ==
  NumNL(text) + (IF text # <<>> /\ text[Len(text)] # NL THEN 1 ELSE 0)

\* The offset just after the terminator of line n of a text: 0 for n = 0,
\* the end of the text when line n has no terminator.
AfterLine(text, n) ==
  IF n <= 0 THEN 0
  ELSE IF NumNL(text) < n THEN Len(text)
  ELSE CHOOSE p \in 1..Len(text) :
         text[p] = NL /\ Cardinality({q \in 1..p : text[q] = NL}) = n

\* The premise of C14: a range of lines that the text has.
InText == ext.done /\ 1 <= ext.start /\ ext.start <= ext.end
            /\ ext.end <= NumLines(ext.text)

\* C14 as stated: for 1 <= s <= e <= number of lines the window starts at
\* the first byte of line s and ends in front of the terminator of line e.
C14_ExclusiveEnd ==
  InText =>
    /\ ext.startByte = AfterLine(ext.text, ext.start - 1)
    /\ ext.endByte = IF ext.end <= NumNL(ext.text)
                     THEN AfterLine(ext.text, ext.end) - 1
                     ELSE Len(ext.text)

\* C14: for 1 <= s <= e <= number of lines the window starts at the first
\* byte of line s and ends just after the terminator of line e (at the end
\* of the text when line e is an unterminated last line); the bytes returned
\* are those of the window, so every terminator of lines s..e is in them.
C14_Window ==
  InText =>
    /\ ext.startByte = AfterLine(ext.text, ext.start - 1)
    /\ ext.endByte = AfterLine(ext.text, ext.end)
    /\ ext.out = SubSeq(ext.text, ext.startByte + 1, ext.endByte)
    /\ ext.end <= NumNL(ext.text) =>
         /\ ext.out # <<>> /\ ext.out[Len(ext.out)] = NL
         /\ NumNL(ext.out) = ext.end - ext.start + 1

\* findLines returned a line that is neither the first nor the last of the
\* text, with a byte before its terminator.
C14_Witness ==
  /\ InText
  /\ ext.start >= 2 /\ ext.end < NumLines(ext.text)
  /\ Len(ext.out) >= 2
  /\ ext.out[Len(ext.out)] = NL
  /\ ext.endByte < Len(ext.text)

\* C15: the payload written for an add or a change is the lines
\* newStart..newEnd of the new content, each complete with its terminator,
\* that of the last line included: 2c2 against "a\nx\nc\n" writes "x\n" and
\* 2a3 against "a\nb\nc\n" writes "c\n".
C15_CompleteLines ==
  /\ findLines(<<"a", NL, "x", NL, "c", NL>>, 2, 2) = <<"x", NL>>
  /\ findLines(<<"a", NL, "b", NL, "c", NL>>, 3, 3) = <<"c", NL>>
  /\ call.path = "replayed" =>
       LET H == Hdrs
       IN  \A k \in CmdIdx :
             (Cmds[k].file = "data" /\ H[Cmds[k].line].op \in {"a", "c"}) =>
               LET h    == H[Cmds[k].line]
                   data == Cmds[k].data
               IN  /\ data = RefLines(call.new.b, h.new.start, h.new.end)
                   /\ data # <<>> /\ data[Len(data)] = NL
                   /\ NumNL(data) = h.new.end - h.new.start + 1

\* A change 2c2 wrote the second line of a new content of three lines, and
\* nothing but that line.
C15_Witness ==
  /\ call.path = "replayed"
  /\ Len(LinesOf(call.new.b)) = 3
  /\ \E k \in CmdIdx :
       /\ Cmds[k].file = "data"
       /\ Split(call.diff, NL)[Cmds[k].line + 1] = <<"2", "c", "2">>
       /\ Cmds[k].data = <<LinesOf(call.new.b)[2], NL>>

\* C16: for any bytes and any pair of line numbers findLines returns the
\* bytes of a window with 0 <= startByte <= endByte <= length of the text; a
\* start or an end past the last line puts that side of the window at the
\* end of the text.
C16_InBounds ==
  ext.done =>
    /\ 0 <= ext.startByte
    /\ ext.startByte <= ext.endByte
    /\ ext.endByte <= Len(ext.text)
    /\ ext.out = SubSeq(ext.text, ext.startByte + 1, ext.endByte)
    /\ ext.end > NumNL(ext.text) => ext.endByte = Len(ext.text)
    /\ ext.start - 1 > NumNL(ext.text) => ext.startByte = Len(ext.text)

\* findLines was given a range that starts on a line of the text and ends
\* past its last line, and returned the rest of the text.
C16_Witness ==
  /\ ext.done
  /\ 2 <= ext.start /\ ext.start <= NumLines(ext.text)
  /\ ext.end > NumLines(ext.text)
  /\ ext.startByte > 0 /\ ext.startByte < ext.endByte
  /\ ext.endByte = Len(ext.text)

\* C17: when the diff tool fails, no command is sent to the buffer handle:
\* no reset, no selection, no write.
C17_DiffFailureNoCommand == call.diffFailed => Cmds = <<>>

\* The failures the handling of an event met and the loop survives.
\* "event": an error returned by readEvent; "read": ioutil.ReadFile; "fmt":
\* the formatter; "diff": the diff tool; "line": a header line without
\* operator; "addr": a rejected address.
Failures ==
  {f \in {"event", "read", "fmt", "diff", "line", "addr"} :
     \/ f = "event" /\ call.err
     \/ f = "read" /\ call.path = "read-failed"
     \/ f = "fmt" /\ call.path = "fmt-failed"
     \/ f = "diff" /\ call.diffFailed
     \/ f = "line" /\ call.path = "replayed"
          /\ \E i \in DOMAIN Hdrs : Hdrs[i].cand /\ ~Hdrs[i].hasOp
     \/ f = "addr" /\ \E k \in CmdIdx : Cmds[k].file = "addr" /\ ~Cmds[k].ok}

\* C18: every failure met is reported: the log of the call holds a line
\* other than the notice of a configuration read.
C18_AllReported ==
  Failures # {} => \E k \in 1..Len(call.log) : call.log[k].msg # "read"

\* The premise of C19: both contents were obtained and are the same bytes.
Identical ==
  /\ call.path \in {"no-change", "temp-failed", "write-failed", "replayed"}
  /\ ~call.new.isNil
  /\ call.new.b = call.old

\* C19 as stated: when the old content is the new content, the buffer
\* handle is not opened.
C19_HandleUntouched == Identical => call.opens = 0 /\ call.closes = 0

\* C19: when the old content is the new content, reformat returns after
\* having opened the buffer handle once and closed it once, without any
\* reset, selection or write on it, any temporary file or any diff.
C19_NoCommand ==
  Identical =>
    /\ call.path = "no-change"
    /\ call.opens = 1 /\ call.closes = 1
    /\ Cmds = <<>>
    /\ call.diffCalls = 0 /\ call.tmp = "none"

\* The formatter returned the bytes of a file that is not empty.
C19_Witness ==
  /\ Identical
  /\ call.old # <<>>
  /\ call.opens = 1 /\ call.closes = 1
  /\ Cmds = <<>>

\* C20: once created, the temporary file is closed and removed on every way
\* out of reformat.
C20_TempRemoved == call.tmp \in {"none", "removed"}

====
